---- MODULE Spec2Model ----
(***************************************************************************)
(* Lobby / Grants subsystem of the VirtualME backend: invitation, accept,  *)
(* reject, revoke and the /acl/can-act-as oracle, over the two MongoDB     *)
(* representations (users.lobby.* and the grants collection).              *)
(*                                                                         *)
(* Every HTTP handler is a sequence of awaited MongoDB calls.  Each call   *)
(* is one step of the handler, written as a function of the database and   *)
(* of the handler's locals.  Spec runs one handler at a time, each to its  *)
(* end; SpecConc runs two request slots whose steps interleave, which is   *)
(* the concurrency Node and MongoDB give to two requests in flight.  The   *)
(* response is sent together with the last call of the handler.            *)
(* SpecFallback adds the GRANT- codes to the codes presented, SpecFail     *)
(* lets an awaited call throw, SpecVoice is the ACL gate of the ai-engine  *)
(* POST /voice, and SpecCodec is the GRANT- code as a string.              *)
(***************************************************************************)
EXTENDS Integers, Sequences, FiniteSets, TLC

----------------------------------------------------------------------------
(* Bounds *)

MaxCodes == 2        \* number of invite codes genInviteCode() hands out
MaxTime == 1         \* Date.now() reads a value in 0..MaxTime (wall clock, not monotonic)
IdBytes == 2         \* bytes of an ObjectId in the code round trip (12 in MongoDB)

----------------------------------------------------------------------------
(* Accounts (the users collection; account fields are immutable here) *)

Users == {"u1", "u2", "u3"}
Anon == "anon"                       \* null: no account / req.userId undefined
Ghost == "u9"                        \* a verified id whose users document is gone
Slots == {1, 2}                      \* requests that may be in flight together

UserEmail == [u \in Users |-> u]     \* users.email, already lower case
UserName == [u \in Users |-> <<"name", u>>]         \* users.name
UserPicture == [u \in Users |-> <<"picture", u>>]   \* users.picture

\* email.toLowerCase().trim()
normEmail(raw) == IF raw = "U2 " THEN "u2" ELSE raw

\* Users.findOne({ email: normEmail })
UserByEmail(e) == IF \E u \in Users : UserEmail[u] = e
                  THEN CHOOSE u \in Users : UserEmail[u] = e
                  ELSE Anon

\* objId(id): an ObjectId, or null for a string that is not one
objId(id) == IF id \in Users THEN id ELSE Anon

----------------------------------------------------------------------------
(* Codes and identifiers *)

NoCode == <<>>                       \* inviteCode: null
NoGrantId == <<>>
CodePool == <<"K1", "K2", "K3", "K4", "K5">>

\* `INV-XXXX-YYYY`: the k-th code drawn from Math.random()
genInviteCode(k) == <<"INV", CodePool[k], CodePool[k]>>

\* the code built with the guest's id first
syntheticGuestFirst(ownerId, meId) == <<"GRANT", meId, ownerId>>

\* `GRANT-${owner._id}-${me._id}`
synthetic(ownerId, meId) == <<"GRANT", ownerId, meId>>

\* `grant_${owner._id}_${guest._id}_${Date.now()}`
mkGrantId(ownerId, guestId, t) == <<"grant", ownerId, guestId, t>>

NoBearer == ""                       \* no Authorization header and no authToken
NoTarget == "null"                   \* targetUserId: null

VARIABLES
    PUBLIC_DEFAULT_TARGET_USER_ID,   \* ai-engine: process.env value or null
    invites,     \* users.lobby.invites : owner -> set of embedded invites
    granted,     \* users.lobby.granted : owner -> array of active entries
    grants,      \* the grants collection, in insertion order
    nextCode,    \* index of the next code genInviteCode() returns
    req,         \* per slot: the request in flight (its position and locals)
    out          \* the HTTP response sent by the step just taken, if any

vars == <<PUBLIC_DEFAULT_TARGET_USER_ID, invites, granted, grants, nextCode, req, out>>

\* the database as one value, and its assignment
DB == [invites |-> invites, granted |-> granted, grants |-> grants]
SetDB(d) ==
    /\ UNCHANGED PUBLIC_DEFAULT_TARGET_USER_ID
    /\ invites' = d.invites
    /\ granted' = d.granted
    /\ grants' = d.grants

----------------------------------------------------------------------------
(* MongoDB primitives on an array / collection kept as a sequence *)

\* findOne: the index of the first of the matching documents, 0 when none
FirstIdx(matching) ==
    IF matching = {} THEN 0 ELSE CHOOSE i \in matching : \A j \in matching : i <= j

\* { $pull: { array: filter } }: the array without the elements hit
Pull(seq, hit) == LET Keep(x) == x \notin hit IN SelectSeq(seq, Keep)

\* a write that leaves the status as it was
RevokedNotWritten(g) == g

\* a write that turns a revoked document active again
RevokedFlipped(g) == [g EXCEPT !.status = IF @ = "revoked" THEN "active" ELSE "revoked"]

\* { $set: { status: 'revoked', updatedAt: new Date() } }
Revoked(g) == [g EXCEPT !.status = "revoked"]

\* deleteMany(filter) in place of the update
UpdateManyDeleting(seq, matching) ==
    LET Kept(i) == i \notin matching
        kept == SelectSeq([i \in 1..Len(seq) |-> i], Kept)
    IN [n \in 1..Len(kept) |-> seq[kept[n]]]

\* updateMany(filter, { $set: { status: 'revoked' } }) on the matching documents
UpdateMany(seq, matching) ==
    [i \in 1..Len(seq) |-> IF i \in matching THEN Revoked(seq[i]) ELSE seq[i]]

----------------------------------------------------------------------------
(* Responses *)

NoResp == [kind |-> "none"]
\* res.status(st).json({ error: msg }), sent by the route op
Error(op, st, msg) == [kind |-> "error", op |-> op, status |-> st, error |-> msg]
Idle == [op |-> "idle", pc |-> "done"]

\* what one step of a handler yields: the database, the locals, the response
Yield(d, r, o) == [db |-> d, req |-> r, out |-> o]
Done(r) == [r EXCEPT !.pc = "done"]

----------------------------------------------------------------------------
(* GET /acl/can-act-as?target=<id> *)

\* Grants.findOne({ ownerId, guestId, status: 'active' })
ActiveGrant(d, ownerId, guestId) ==
    \E i \in 1..Len(d.grants) :
        /\ d.grants[i].ownerId = ownerId
        /\ d.grants[i].guestId = guestId
        /\ d.grants[i].status = "active"

\* the lookup with the status test left out
canActAsAnyStatus(d, me, target) ==
    IF me = Anon
    THEN [kind |-> "acl", status |-> 401, allowed |-> FALSE, reason |-> "unauthorized"]
    ELSE IF me = target
    THEN [kind |-> "acl", status |-> 200, allowed |-> TRUE, reason |-> "self"]
    ELSE IF \E i \in 1..Len(d.grants) :
                d.grants[i].ownerId = objId(target) /\ d.grants[i].guestId = objId(me)
    THEN [kind |-> "acl", status |-> 200, allowed |-> TRUE, reason |-> "grant"]
    ELSE [kind |-> "acl", status |-> 403, allowed |-> FALSE, reason |-> "no-grant"]

\* the handler with the `me === target` shortcut left out
canActAsNoSelf(d, me, target) ==
    IF me = Anon
    THEN [kind |-> "acl", status |-> 401, allowed |-> FALSE, reason |-> "unauthorized"]
    ELSE IF ActiveGrant(d, objId(target), objId(me))
    THEN [kind |-> "acl", status |-> 200, allowed |-> TRUE, reason |-> "grant"]
    ELSE [kind |-> "acl", status |-> 403, allowed |-> FALSE, reason |-> "no-grant"]

\* the lookup made in the owner's lobby.granted in place of the collection
canActAsFromLedger(d, me, target) ==
    IF me = Anon
    THEN [kind |-> "acl", status |-> 401, allowed |-> FALSE, reason |-> "unauthorized"]
    ELSE IF me = target
    THEN [kind |-> "acl", status |-> 200, allowed |-> TRUE, reason |-> "self"]
    ELSE IF \E k \in 1..Len(d.granted[target]) :
                d.granted[target][k].guest = me /\ d.granted[target][k].status = "active"
    THEN [kind |-> "acl", status |-> 200, allowed |-> TRUE, reason |-> "grant"]
    ELSE [kind |-> "acl", status |-> 403, allowed |-> FALSE, reason |-> "no-grant"]

canActAs(d, me, target) ==
    IF me = Anon
    THEN [kind |-> "acl", status |-> 401, allowed |-> FALSE, reason |-> "unauthorized"]
    ELSE IF me = target
    THEN [kind |-> "acl", status |-> 200, allowed |-> TRUE, reason |-> "self"]
    ELSE IF ActiveGrant(d, objId(target), objId(me))
    THEN [kind |-> "acl", status |-> 200, allowed |-> TRUE, reason |-> "grant"]
    ELSE [kind |-> "acl", status |-> 403, allowed |-> FALSE, reason |-> "no-grant"]

----------------------------------------------------------------------------
(* GET /lobby/summary *)

\* the email the pending invite with this code in o's ledger is addressed to
InviteEmail(d, o, code) ==
    (CHOOSE i \in d.invites[o] : i.inviteCode = code /\ i.status = "pending").email

\* the order Users.find() returns the accounts in
UserOrder == <<"u1", "u2", "u3">>

\* meDoc.lobby.granted mapped to the entries shown
activeGrants(d, me) ==
    [k \in 1..Len(d.granted[me]) |->
        [status |-> d.granted[me][k].status, inviteCode |-> NoCode,
         id |-> d.granted[me][k].id, guest |-> d.granted[me][k].guest,
         email |-> d.granted[me][k].email]]

\* meDoc.lobby.invites with status pending, mapped to the entries shown;
\* the array holds them in the order they were pushed
pendingAsGrants(d, me) ==
    LET Held(k) == \E i \in d.invites[me] :
                       i.inviteCode = genInviteCode(k) /\ i.status = "pending"
        held == SelectSeq([k \in 1..Len(CodePool) |-> k], Held)
    IN [n \in 1..Len(held) |->
           [status |-> "pending", inviteCode |-> genInviteCode(held[n]),
            id |-> NoGrantId, guest |-> "",
            email |-> InviteEmail(d, me, genInviteCode(held[n]))]]

\* the active entries naming me as guest in the ledgers of the owners from k on
RECURSIVE receivedFrom(_, _, _)
receivedFrom(d, me, k) ==
    IF k > Len(UserOrder) THEN <<>>
    ELSE LET owner == UserOrder[k]
             Mine(g) == g.guest = me /\ g.status = "active"
             mine == SelectSeq(d.granted[owner], Mine)
         IN [n \in 1..Len(mine) |->
                [status |-> "active", id |-> mine[n].id, owner |-> owner]]
            \o receivedFrom(d, me, k + 1)

summary(d, me) ==
    IF me = Anon THEN Error("any", 401, "unauthorized")
    ELSE IF me \notin Users THEN Error("any", 404, "not_found")
    ELSE [kind |-> "summary", status |-> 200, me |-> me,
          granted |-> activeGrants(d, me) \o pendingAsGrants(d, me),
          received |-> receivedFrom(d, me, 1)]

----------------------------------------------------------------------------
(* GET /lobby/requests *)

\* owner: { _id, name, email, picture }
ownerInfo(o) ==
    [id |-> o, name |-> UserName[o], email |-> UserEmail[o], picture |-> UserPicture[o]]

\* A) byKey after the loop over the owners from the k-th on and their pending
\* invites addressed to me, in the order the entries were set; the key is
\* the invite code, which no two invites share
RECURSIVE ledgerRequests(_, _, _)
ledgerRequests(d, me, k) ==
    IF k > Len(UserOrder) THEN <<>>
    ELSE LET owner == UserOrder[k]
             Held(n) == \E i \in d.invites[owner] :
                            /\ i.inviteCode = genInviteCode(n)
                            /\ i.status = "pending"
                            /\ i.email = UserEmail[me]
             held == SelectSeq([n \in 1..Len(CodePool) |-> n], Held)
         IN [n \in 1..Len(held) |->
                [inviteCode |-> genInviteCode(held[n]), owner |-> ownerInfo(owner)]]
            \o ledgerRequests(d, me, k + 1)

\* `g.inviteCode || synthetic`
requestCode(g, me) ==
    IF g.inviteCode /= NoCode THEN g.inviteCode ELSE synthetic(g.ownerId, me)

\* B) with the `!byKey.has(code)` test against the entries of A) left out
grantRequestsUnkeyed(d, me, seen) ==
    LET Pend(i) == d.grants[i].guestId = me /\ d.grants[i].status = "pending"
        pend == SelectSeq([i \in 1..Len(d.grants) |-> i], Pend)
    IN [n \in 1..Len(pend) |->
           [inviteCode |-> requestCode(d.grants[pend[n]], me),
            owner |-> ownerInfo(d.grants[pend[n]].ownerId)]]

\* B) the pending documents naming me as guest, in collection order, each
\* set under its code unless byKey has that code already
grantRequests(d, me, seen) ==
    LET New(i) ==
            /\ d.grants[i].guestId = me
            /\ d.grants[i].status = "pending"
            /\ requestCode(d.grants[i], me) \notin seen
            /\ \A j \in 1..(i - 1) :
                   (d.grants[j].guestId = me /\ d.grants[j].status = "pending")
                       => requestCode(d.grants[j], me) /= requestCode(d.grants[i], me)
        new == SelectSeq([i \in 1..Len(d.grants) |-> i], New)
    IN [n \in 1..Len(new) |->
           [inviteCode |-> requestCode(d.grants[new[n]], me),
            owner |-> ownerInfo(d.grants[new[n]].ownerId)]]

\* res.json({ requests }): the values of byKey in the order they were set
\* (the sort by createdAt is not modelled)
requests(d, me) ==
    IF me = Anon THEN Error("any", 401, "unauthorized")
    ELSE IF me \notin Users THEN Error("any", 404, "not_found")
    ELSE LET A == ledgerRequests(d, me, 1)
             seen == {A[n].inviteCode : n \in 1..Len(A)}
         IN [kind |-> "requests", status |-> 200,
             requests |-> A \o grantRequests(d, me, seen)]

----------------------------------------------------------------------------
(* POST /lobby/invite *)

InviteReq(owner, raw, k) ==
    [op |-> "invite", pc |-> "pull", caller |-> owner, email |-> normEmail(raw),
     code |-> genInviteCode(k), existing |-> 0]

\* the handler with insertOne also when the pair has a document
InviteStepInserting(r, d) ==
    LET guest == UserByEmail(r.email)
        ok == [kind |-> "invite", status |-> 200, inviteCode |-> r.code]
    IN
    CASE r.pc = "pull" ->
           \* $pull of the pending invite for the same email
           Yield([d EXCEPT !.invites[r.caller] =
                     {i \in @ : ~(i.email = r.email /\ i.status = "pending")}],
                 [r EXCEPT !.pc = "push"], NoResp)
      [] r.pc = "push" ->
           \* $push of the new invite
           Yield([d EXCEPT !.invites[r.caller] =
                     @ \cup {[email |-> r.email, inviteCode |-> r.code,
                              status |-> "pending"]}],
                 [r EXCEPT !.pc = "find"], NoResp)
      [] r.pc = "find" ->
           \* Users.findOne({ email }), Grants.findOne({ ownerId, guestId })
           IF guest = Anon
           THEN Yield(d, Done(r), ok)
           ELSE LET match == {i \in 1..Len(d.grants) :
                                 /\ d.grants[i].ownerId = r.caller
                                 /\ d.grants[i].guestId = guest}
                IN Yield(d, [r EXCEPT !.pc = "mirror", !.existing = FirstIdx(match)],
                         NoResp)
      [] r.pc = "mirror" ->
           \* Grants.updateOne({ _id: existing._id }) or Grants.insertOne
           Yield([d EXCEPT !.grants =
                     Append(@, [ownerId |-> r.caller, guestId |-> guest,
                                status |-> "pending", inviteCode |-> r.code])],
                 Done(r), ok)

InviteStep(r, d) ==
    LET guest == UserByEmail(r.email)
        ok == [kind |-> "invite", status |-> 200, inviteCode |-> r.code]
    IN
    CASE r.pc = "pull" ->
           \* $pull of the pending invite for the same email
           Yield([d EXCEPT !.invites[r.caller] =
                     {i \in @ : ~(i.email = r.email /\ i.status = "pending")}],
                 [r EXCEPT !.pc = "push"], NoResp)
      [] r.pc = "push" ->
           \* $push of the new invite
           Yield([d EXCEPT !.invites[r.caller] =
                     @ \cup {[email |-> r.email, inviteCode |-> r.code,
                              status |-> "pending"]}],
                 [r EXCEPT !.pc = "find"], NoResp)
      [] r.pc = "find" ->
           \* Users.findOne({ email }), Grants.findOne({ ownerId, guestId })
           IF guest = Anon
           THEN Yield(d, Done(r), ok)
           ELSE LET match == {i \in 1..Len(d.grants) :
                                 /\ d.grants[i].ownerId = r.caller
                                 /\ d.grants[i].guestId = guest}
                IN Yield(d, [r EXCEPT !.pc = "mirror", !.existing = FirstIdx(match)],
                         NoResp)
      [] r.pc = "mirror" ->
           \* Grants.updateOne({ _id: existing._id }) or Grants.insertOne
           Yield([d EXCEPT !.grants =
                     IF r.existing /= 0
                     THEN [@ EXCEPT ![r.existing] =
                              [@ EXCEPT !.status = "pending", !.inviteCode = r.code]]
                     ELSE Append(@, [ownerId |-> r.caller, guestId |-> guest,
                                     status |-> "pending", inviteCode |-> r.code])],
                 Done(r), ok)

----------------------------------------------------------------------------
(* POST /lobby/accept *)

\* Users.findOne({ 'lobby.invites': { $elemMatch: { inviteCode, status: 'pending' } } })
HasInvite(d, o, code) ==
    \E i \in d.invites[o] : i.inviteCode = code /\ i.status = "pending"

InviteOwner(d, code) ==
    IF \E o \in Users : HasInvite(d, o, code)
    THEN CHOOSE o \in Users : HasInvite(d, o, code)
    ELSE Anon

\* the test with `guestId.equals(guest._id)` left out
FallbackForAnyCaller(code, me) ==
    /\ Len(code) >= 2
    /\ code[1] = "GRANT"
    /\ Len(code) = 3
    /\ objId(code[2]) /= Anon
    /\ objId(code[3]) /= Anon

\* inviteCode.startsWith('GRANT-'), split('-') has 3 parts, both are ObjectIds
\* and the guest part is the caller
FallbackFor(code, me) ==
    /\ Len(code) >= 2
    /\ code[1] = "GRANT"
    /\ Len(code) = 3
    /\ objId(code[2]) /= Anon
    /\ objId(code[3]) /= Anon
    /\ objId(code[3]) = me

\* the $pull with the `_id: owner` filter left out
PullInviteAnyOwner(d, owner, code) ==
    [d EXCEPT !.invites = [o \in Users |-> {i \in d.invites[o] : i.inviteCode /= code}]]

\* { $pull: { 'lobby.invites': { inviteCode } } }
PullInvite(d, owner, code) ==
    [d EXCEPT !.invites[owner] = {i \in @ : i.inviteCode /= code}]

\* the upsert with `inviteCode: null` left out of the $set
UpsertActiveKeepingCode(d, owner, guest) ==
    LET i == FirstIdx({k \in 1..Len(d.grants) :
                          /\ d.grants[k].ownerId = owner
                          /\ d.grants[k].guestId = guest})
    IN [d EXCEPT !.grants =
           IF i /= 0
           THEN [@ EXCEPT ![i] = [@ EXCEPT !.status = "active"]]
           ELSE Append(@, [ownerId |-> owner, guestId |-> guest,
                           status |-> "active", inviteCode |-> NoCode])]

\* the upsert with `status: 'active'` left out of the $set
UpsertClearingCode(d, owner, guest) ==
    LET i == FirstIdx({k \in 1..Len(d.grants) :
                          /\ d.grants[k].ownerId = owner
                          /\ d.grants[k].guestId = guest})
    IN [d EXCEPT !.grants =
           IF i /= 0
           THEN [@ EXCEPT ![i] = [@ EXCEPT !.inviteCode = NoCode]]
           ELSE Append(@, [ownerId |-> owner, guestId |-> guest,
                           status |-> "active", inviteCode |-> NoCode])]

\* Grants.updateOne({ ownerId, guestId }, { $set: active, inviteCode: null }, { upsert })
UpsertActive(d, owner, guest) ==
    LET i == FirstIdx({k \in 1..Len(d.grants) :
                          /\ d.grants[k].ownerId = owner
                          /\ d.grants[k].guestId = guest})
    IN [d EXCEPT !.grants =
           IF i /= 0
           THEN [@ EXCEPT ![i] = [@ EXCEPT !.status = "active", !.inviteCode = NoCode]]
           ELSE Append(@, [ownerId |-> owner, guestId |-> guest,
                           status |-> "active", inviteCode |-> NoCode])]

AcceptReq(me, code) ==
    [op |-> "accept", pc |-> "find", caller |-> me, code |-> code, owner |-> Anon,
     invEmail |-> "", grantId |-> NoGrantId]

AcceptStep(r, d, t) ==
    LET notFound == Error(r.op, 404, "invite_not_found") IN
    CASE r.pc = "find" ->
           \* the owner whose ledger holds the pending invite, else the fallback
           LET o == InviteOwner(d, r.code) IN
           IF o /= Anon
           THEN Yield(d, [r EXCEPT !.pc = "pull", !.owner = o,
                                   !.invEmail = InviteEmail(d, o, r.code)], NoResp)
           ELSE IF FallbackFor(r.code, r.caller)
           THEN Yield(d, [r EXCEPT !.pc = "findgrant", !.owner = objId(r.code[2])],
                      NoResp)
           ELSE Yield(d, Done(r), notFound)
      [] r.pc = "findgrant" ->
           \* Grants.findOne({ ownerId, guestId, status: 'pending' })
           LET pend == {i \in 1..Len(d.grants) :
                           /\ d.grants[i].ownerId = r.owner
                           /\ d.grants[i].guestId = objId(r.code[3])
                           /\ d.grants[i].status = "pending"}
           IN IF FirstIdx(pend) /= 0
              THEN Yield(d, [r EXCEPT !.pc = "pull"], NoResp)
              ELSE Yield(d, Done(r), notFound)
      [] r.pc = "pull" ->
           Yield(PullInvite(d, r.owner, r.code), [r EXCEPT !.pc = "push"], NoResp)
      [] r.pc = "push" ->
           \* grantId from Date.now(), $push of the active entry
           LET gid == mkGrantId(r.owner, r.caller, t) IN
           Yield([d EXCEPT !.granted[r.owner] =
                     Append(@, [id |-> gid, status |-> "active", guest |-> r.caller,
                                email |-> UserEmail[r.caller],
                                name |-> UserName[r.caller],
                                picture |-> UserPicture[r.caller]])],
                 [r EXCEPT !.pc = "upsert", !.grantId = gid], NoResp)
      [] r.pc = "upsert" ->
           Yield(UpsertActive(d, r.owner, r.caller), Done(r),
                 [kind |-> "accept", status |-> 200, grantId |-> r.grantId])

----------------------------------------------------------------------------
(* POST /lobby/reject *)

RejectReq(me, code) ==
    [op |-> "reject", pc |-> "find", caller |-> me, code |-> code, owner |-> Anon,
     invEmail |-> "", pend |-> 0]

RejectStep(r, d) ==
    LET ok == [kind |-> "reject", status |-> 200] IN
    CASE r.pc = "find" ->
           LET o == InviteOwner(d, r.code) IN
           IF o /= Anon
           THEN Yield(d, [r EXCEPT !.pc = "pull", !.owner = o,
                                   !.invEmail = InviteEmail(d, o, r.code)], NoResp)
           ELSE Yield(d, [r EXCEPT !.pc = "findgrant"], NoResp)
      [] r.pc = "pull" ->
           Yield(PullInvite(d, r.owner, r.code), [r EXCEPT !.pc = "update"], NoResp)
      [] r.pc = "update" ->
           \* Grants.updateMany({ ownerId, status: 'pending', inviteCode })
           LET match == {i \in 1..Len(d.grants) :
                            /\ d.grants[i].ownerId = r.owner
                            /\ d.grants[i].status = "pending"
                            /\ d.grants[i].inviteCode = r.code}
           IN Yield([d EXCEPT !.grants = UpdateMany(@, match)], Done(r), ok)
      [] r.pc = "findgrant" ->
           \* Grants.findOne({ guestId: me, inviteCode, status: 'pending' })
           LET i == FirstIdx({k \in 1..Len(d.grants) :
                                 /\ d.grants[k].guestId = r.caller
                                 /\ d.grants[k].inviteCode = r.code
                                 /\ d.grants[k].status = "pending"})
           IN IF i /= 0
              THEN Yield(d, [r EXCEPT !.pc = "gupdate", !.pend = i,
                                      !.owner = d.grants[i].ownerId], NoResp)
              ELSE Yield(d, Done(r), Error(r.op, 404, "invite_not_found"))
      [] r.pc = "gupdate" ->
           \* Grants.updateOne({ _id: pendGrant._id }, { $set: revoked })
           Yield([d EXCEPT !.grants[r.pend] = Revoked(@)],
                 [r EXCEPT !.pc = "gpull"], NoResp)
      [] r.pc = "gpull" ->
           Yield(PullInvite(d, r.owner, r.code), Done(r), ok)

----------------------------------------------------------------------------
(* POST /lobby/revoke and POST /lobby/revoke-by-guest *)

\* body { inviteCode } or { grantId }; the inviteCode branch is tried first
RevokeReq(owner, code, gid) ==
    [op |-> "revoke", pc |-> "start", caller |-> owner, code |-> code,
     grantId |-> gid, count |-> 0]

RevokeByGuestReq(owner, guestId) ==
    [op |-> "revokeByGuest", pc |-> "pull", caller |-> owner, guestId |-> guestId,
     count |-> 0]

modifiedCount(before, after) == IF before /= after THEN 1 ELSE 0

RevokeStep(r, d) ==
    CASE r.pc = "start" /\ r.code /= NoCode ->
           LET d2 == PullInvite(d, r.caller, r.code) IN
           Yield(d2, [r EXCEPT !.pc = "update",
                               !.count = modifiedCount(d.invites, d2.invites)], NoResp)
      [] r.pc = "update" ->
           \* Grants.updateMany({ ownerId, inviteCode })
           LET match == {i \in 1..Len(d.grants) :
                            /\ d.grants[i].ownerId = r.caller
                            /\ d.grants[i].inviteCode = r.code}
           IN
           Yield([d EXCEPT !.grants = UpdateMany(@, match)], Done(r),
                 [kind |-> "revoke", status |-> 200, removed |-> r.count])
      [] r.pc = "start" /\ r.code = NoCode /\ r.grantId /= NoGrantId ->
           \* { $pull: { 'lobby.granted': { $or: [{ id: grantId }, { grantId }] } } }
           LET hit == {d.granted[r.caller][i] : i \in
                          {k \in 1..Len(d.granted[r.caller]) :
                              d.granted[r.caller][k].id = r.grantId}}
               d2 == [d EXCEPT !.granted[r.caller] = Pull(@, hit)]
           IN Yield(d2, [r EXCEPT !.pc = "updateg",
                                  !.count = modifiedCount(d.granted, d2.granted)], NoResp)
      [] r.pc = "updateg" ->
           \* Grants.updateMany({ ownerId, status: 'active' })
           LET match == {i \in 1..Len(d.grants) :
                            /\ d.grants[i].ownerId = r.caller
                            /\ d.grants[i].status = "active"}
           IN
           Yield([d EXCEPT !.grants = UpdateMany(@, match)], Done(r),
                 [kind |-> "updated", status |-> 200, updated |-> r.count])
      [] r.pc = "start" /\ r.code = NoCode /\ r.grantId = NoGrantId ->
           Yield(d, Done(r), Error(r.op, 400, "missing_inviteCode_or_grantId"))

RevokeByGuestStep(r, d) ==
    CASE r.pc = "pull" ->
           \* { $pull: { 'lobby.granted': { 'guest._id': String(guestId) } } }
           LET hit == {d.granted[r.caller][i] : i \in
                          {k \in 1..Len(d.granted[r.caller]) :
                              d.granted[r.caller][k].guest = r.guestId}}
               d2 == [d EXCEPT !.granted[r.caller] = Pull(@, hit)]
           IN Yield(d2, [r EXCEPT !.pc = "update",
                                  !.count = modifiedCount(d.granted, d2.granted)], NoResp)
      [] r.pc = "update" ->
           \* Grants.updateMany({ ownerId, guestId: objId(guestId) })
           LET match == {i \in 1..Len(d.grants) :
                            /\ d.grants[i].ownerId = r.caller
                            /\ d.grants[i].guestId = objId(r.guestId)}
           IN
           Yield([d EXCEPT !.grants = UpdateMany(@, match)], Done(r),
                 [kind |-> "updated", status |-> 200, updated |-> r.count])

----------------------------------------------------------------------------
(* Running a handler *)

\* one awaited call of the handler r is in, on database d, the clock showing t
StepOf(r, d, t) ==
    CASE r.op = "invite" -> InviteStep(r, d)
      [] r.op = "accept" -> AcceptStep(r, d, t)
      [] r.op = "reject" -> RejectStep(r, d)
      [] r.op = "revoke" -> RevokeStep(r, d)
      [] r.op = "revokeByGuest" -> RevokeByGuestStep(r, d)

\* the handler run to its response with no other request in between
RECURSIVE RunToEnd(_, _, _)
RunToEnd(r, d, t) ==
    LET y == StepOf(r, d, t) IN
    IF y.req.pc = "done" THEN y ELSE RunToEnd(y.req, y.db, t)

\* the handler with its first line, `if (!req.userId) return 401`, left out
EntryUnguarded(r, d, t) == RunToEnd(r, d, t)

\* the handler from its first line: 401 without a verified caller, before
\* any awaited call
Entry(r, d, t) ==
    IF r.caller = Anon
    THEN Yield(d, Done(r), Error("any", 401, "unauthorized"))
    ELSE RunToEnd(r, d, t)

\* the first k awaited calls of the handler, the call after them not made
RECURSIVE RunSteps(_, _, _, _)
RunSteps(r, d, t, k) ==
    IF k = 0 \/ r.pc = "done" THEN Yield(d, r, NoResp)
    ELSE LET y == StepOf(r, d, t) IN RunSteps(y.req, y.db, t, k - 1)

\* the lobby server does not read the ai-engine's environment
Init ==
    /\ PUBLIC_DEFAULT_TARGET_USER_ID = NoTarget
    /\ invites = [u \in Users |-> {}]
    /\ granted = [u \in Users |-> <<>>]
    /\ grants = <<>>
    /\ nextCode = 1
    /\ req = [s \in Slots |-> Idle]
    /\ out = NoResp

----------------------------------------------------------------------------
(* Inputs the clients send *)

\* who invites which address: a guest with an upper-case address, a second
\* guest, an address with no account, the owner's own address
InvitePairs ==
    {<<"u1", "U2 ">>, <<"u1", "u3">>, <<"u1", "nobody">>, <<"u1", "u1">>}
FallbackPairs == {<<"u1", "U2 ">>, <<"u1", "nobody">>}
ConcPairs == {<<"u1", "U2 ">>}
ConcOwner == "u1"
ConcGuest == "u2"

\* invite codes handed out so far
IssuedCodes == {genInviteCode(k) : k \in 1..(nextCode - 1)}

\* fallback codes naming a pair the grants collection has a document for, and
\* one naming a pair it has none for
FallbackCodes ==
    {synthetic(grants[i].ownerId, grants[i].guestId) : i \in 1..Len(grants)}
        \cup {synthetic("u3", "u1")}

\* grant ids listed in some ledger
KnownGrantIds ==
    UNION {{granted[o][i].id : i \in 1..Len(granted[o])} : o \in Users}

----------------------------------------------------------------------------
(* Spec: one request at a time, each handler run to its end *)

\* the mutating requests a client without a verified identity sends
AnonRequests ==
    {InviteReq(Anon, p[2], nextCode) : p \in InvitePairs}
        \cup {AcceptReq(Anon, code) : code \in IssuedCodes}
        \cup {RejectReq(Anon, code) : code \in IssuedCodes}
        \cup {RevokeReq(Anon, code, NoGrantId) : code \in IssuedCodes}
        \cup {RevokeReq(Anon, NoCode, gid) : gid \in KnownGrantIds}
        \cup {RevokeByGuestReq(Anon, g) : g \in Users}

\* a handler called with req.userId undefined
Unauthorized ==
    \E r \in AnonRequests :
        LET y == Entry(r, DB, 0) IN
        /\ SetDB(y.db)
        /\ out' = y.out
        /\ UNCHANGED <<nextCode, req>>

CanActAs(me, target) ==
    /\ out' = canActAs(DB, me, target)
    /\ UNCHANGED <<PUBLIC_DEFAULT_TARGET_USER_ID, invites, granted, grants, nextCode, req>>

Summary(me) ==
    /\ out' = summary(DB, me)
    /\ UNCHANGED <<PUBLIC_DEFAULT_TARGET_USER_ID, invites, granted, grants, nextCode, req>>

\* the listing that takes the invites it lists out of the ledgers
RequestsConsuming(me) ==
    /\ out' = requests(DB, me)
    /\ invites' = [o \in Users |->
                       {i \in invites[o] :
                           ~(me \in Users /\ i.status = "pending"
                                 /\ i.email = UserEmail[me])}]
    /\ UNCHANGED <<PUBLIC_DEFAULT_TARGET_USER_ID, granted, grants, nextCode, req>>

Requests(me) ==
    /\ out' = requests(DB, me)
    /\ UNCHANGED <<PUBLIC_DEFAULT_TARGET_USER_ID, invites, granted, grants, nextCode, req>>

\* the whole handler on request r, Date.now() reading t
Handle(r, t) ==
    LET y == Entry(r, DB, t) IN
    /\ SetDB(y.db)
    /\ out' = y.out
    /\ UNCHANGED req

Invite(owner, raw) ==
    /\ nextCode <= MaxCodes
    /\ Handle(InviteReq(owner, raw, nextCode), 0)
    /\ nextCode' = nextCode + 1

Accept(me, code, t) ==
    /\ Handle(AcceptReq(me, code), t)
    /\ UNCHANGED nextCode

Reject(me, code) ==
    /\ Handle(RejectReq(me, code), 0)
    /\ UNCHANGED nextCode

Revoke(owner, code, gid) ==
    /\ Handle(RevokeReq(owner, code, gid), 0)
    /\ UNCHANGED nextCode

RevokeByGuest(owner, guestId) ==
    /\ Handle(RevokeByGuestReq(owner, guestId), 0)
    /\ UNCHANGED nextCode

Next ==
    \/ Unauthorized
    \/ \E me \in Users \cup {Anon}, target \in Users : CanActAs(me, target)
    \/ \E me \in Users \cup {Anon, Ghost} : Summary(me)
    \/ \E me \in Users \cup {Anon, Ghost} : Requests(me)
    \/ \E p \in InvitePairs : Invite(p[1], p[2])
    \/ \E me \in Users, code \in IssuedCodes, t \in 0..MaxTime : Accept(me, code, t)
    \/ \E me \in Users, code \in IssuedCodes : Reject(me, code)
    \/ \E owner \in Users, code \in IssuedCodes : Revoke(owner, code, NoGrantId)
    \/ \E owner \in Users, gid \in KnownGrantIds : Revoke(owner, NoCode, gid)
    \/ \E owner \in Users : Revoke(owner, NoCode, NoGrantId)
    \/ \E owner \in Users, g \in Users : RevokeByGuest(owner, g)

Spec == Init /\ [][Next]_vars

\* the same, with the GRANT-<ownerId>-<guestId> codes among the presented ones
NextFallback ==
    \/ Unauthorized
    \/ \E me \in Users \cup {Anon}, target \in Users : CanActAs(me, target)
    \/ \E p \in FallbackPairs : Invite(p[1], p[2])
    \/ \E me \in Users, code \in IssuedCodes \cup FallbackCodes, t \in 0..MaxTime :
           Accept(me, code, t)
    \/ \E me \in Users, code \in IssuedCodes \cup FallbackCodes : Reject(me, code)
    \/ \E owner \in Users, code \in IssuedCodes : Revoke(owner, code, NoGrantId)
    \/ \E owner \in Users, gid \in KnownGrantIds : Revoke(owner, NoCode, gid)
    \/ \E owner \in Users : Revoke(owner, NoCode, NoGrantId)
    \/ \E owner \in Users, g \in Users : RevokeByGuest(owner, g)

SpecFallback == Init /\ [][NextFallback]_vars

----------------------------------------------------------------------------
(* SpecConc: two requests in flight, interleaved call by call *)

\* a new request takes the first slot that is not in use
Free(s) == req[s].pc = "done" /\ \A t \in Slots : req[t].pc = "done" => s <= t
At(s, op, pc) == req[s].op = op /\ req[s].pc = pc

\* the next awaited call of request r, run in slot s
Apply(s, r, t) ==
    LET y == StepOf(r, DB, t) IN
    /\ SetDB(y.db)
    /\ req' = [req EXCEPT ![s] = IF y.req.pc = "done" THEN Idle ELSE y.req]
    /\ out' = y.out

InvitePull(s, owner, raw) ==
    /\ Free(s)
    /\ nextCode <= MaxCodes
    /\ Apply(s, InviteReq(owner, raw, nextCode), 0)
    /\ nextCode' = nextCode + 1

InvitePush(s) == At(s, "invite", "push") /\ Apply(s, req[s], 0) /\ UNCHANGED nextCode
InviteFind(s) == At(s, "invite", "find") /\ Apply(s, req[s], 0) /\ UNCHANGED nextCode
InviteMirror(s) == At(s, "invite", "mirror") /\ Apply(s, req[s], 0) /\ UNCHANGED nextCode

AcceptFind(s, me, code) == Free(s) /\ Apply(s, AcceptReq(me, code), 0) /\ UNCHANGED nextCode
AcceptFindGrant(s) == At(s, "accept", "findgrant") /\ Apply(s, req[s], 0) /\ UNCHANGED nextCode
AcceptPull(s) == At(s, "accept", "pull") /\ Apply(s, req[s], 0) /\ UNCHANGED nextCode
AcceptPush(s, t) == At(s, "accept", "push") /\ Apply(s, req[s], t) /\ UNCHANGED nextCode
AcceptUpsert(s) == At(s, "accept", "upsert") /\ Apply(s, req[s], 0) /\ UNCHANGED nextCode

RejectFind(s, me, code) == Free(s) /\ Apply(s, RejectReq(me, code), 0) /\ UNCHANGED nextCode
RejectPull(s) == At(s, "reject", "pull") /\ Apply(s, req[s], 0) /\ UNCHANGED nextCode
RejectUpdate(s) == At(s, "reject", "update") /\ Apply(s, req[s], 0) /\ UNCHANGED nextCode
RejectFindGrant(s) == At(s, "reject", "findgrant") /\ Apply(s, req[s], 0) /\ UNCHANGED nextCode
RejectGrantUpdate(s) == At(s, "reject", "gupdate") /\ Apply(s, req[s], 0) /\ UNCHANGED nextCode
RejectGrantPull(s) == At(s, "reject", "gpull") /\ Apply(s, req[s], 0) /\ UNCHANGED nextCode

RevokePull(s, owner, code, gid) ==
    Free(s) /\ Apply(s, RevokeReq(owner, code, gid), 0) /\ UNCHANGED nextCode
RevokeUpdate(s) == At(s, "revoke", "update") /\ Apply(s, req[s], 0) /\ UNCHANGED nextCode
RevokeGrantUpdate(s) == At(s, "revoke", "updateg") /\ Apply(s, req[s], 0) /\ UNCHANGED nextCode

RevokeByGuestPull(s, owner, guestId) ==
    Free(s) /\ Apply(s, RevokeByGuestReq(owner, guestId), 0) /\ UNCHANGED nextCode
RevokeByGuestUpdate(s) ==
    At(s, "revokeByGuest", "update") /\ Apply(s, req[s], 0) /\ UNCHANGED nextCode

NextConc ==
    \/ CanActAs(ConcGuest, ConcOwner)
    \/ \E s \in Slots :
        \/ \E p \in ConcPairs : InvitePull(s, p[1], p[2])
        \/ InvitePush(s)
        \/ InviteFind(s)
        \/ InviteMirror(s)
        \/ \E code \in IssuedCodes : AcceptFind(s, ConcGuest, code)
        \/ AcceptPull(s)
        \/ \E t \in 0..MaxTime : AcceptPush(s, t)
        \/ AcceptUpsert(s)
        \/ \E code \in IssuedCodes : RejectFind(s, ConcGuest, code)
        \/ RejectPull(s)
        \/ RejectUpdate(s)
        \/ RejectFindGrant(s)
        \/ RejectGrantUpdate(s)
        \/ RejectGrantPull(s)
        \/ \E code \in IssuedCodes : RevokePull(s, ConcOwner, code, NoGrantId)
        \/ \E gid \in KnownGrantIds : RevokePull(s, ConcOwner, NoCode, gid)
        \/ RevokeUpdate(s)
        \/ RevokeGrantUpdate(s)
        \/ RevokeByGuestPull(s, ConcOwner, ConcGuest)
        \/ RevokeByGuestUpdate(s)

SpecConc == Init /\ [][NextConc]_vars

----------------------------------------------------------------------------
(* SpecFail: one request in flight, any awaited call of which may throw *)

\* the awaited call the request in slot s is at throws: the handler's catch
\* answers 500 and none of the calls after it is made
StoreFailure(s) ==
    /\ req[s].pc /= "done"
    /\ req' = [req EXCEPT ![s] = Idle]
    /\ out' = Error(req[s].op, 500, "server_error")
    /\ UNCHANGED <<PUBLIC_DEFAULT_TARGET_USER_ID, invites, granted, grants, nextCode>>

NextFail ==
    \/ CanActAs(ConcGuest, ConcOwner)
    \/ StoreFailure(1)
    \/ \E p \in ConcPairs : InvitePull(1, p[1], p[2])
    \/ InvitePush(1)
    \/ InviteFind(1)
    \/ InviteMirror(1)
    \/ \E code \in IssuedCodes : AcceptFind(1, ConcGuest, code)
    \/ AcceptPull(1)
    \/ \E t \in 0..MaxTime : AcceptPush(1, t)
    \/ AcceptUpsert(1)
    \/ \E code \in IssuedCodes : RejectFind(1, ConcGuest, code)
    \/ RejectPull(1)
    \/ RejectUpdate(1)
    \/ RejectFindGrant(1)
    \/ RejectGrantUpdate(1)
    \/ RejectGrantPull(1)
    \/ \E code \in IssuedCodes : RevokePull(1, ConcOwner, code, NoGrantId)
    \/ \E gid \in KnownGrantIds : RevokePull(1, ConcOwner, NoCode, gid)
    \/ RevokeUpdate(1)
    \/ RevokeGrantUpdate(1)
    \/ RevokeByGuestPull(1, ConcOwner, ConcGuest)
    \/ RevokeByGuestUpdate(1)

SpecFail == Init /\ [][NextFail]_vars

----------------------------------------------------------------------------
(* ai-engine: POST /voice, up to the persona lookup *)

\* GET /me with the bearer: the caller's _id, null when the token does not
\* verify
whoAmI(bearer) == IF bearer \in Users THEN bearer ELSE Anon

\* (targetUserIdRaw && String(targetUserIdRaw).trim()) || null
trimTarget(raw) == IF raw = " " THEN NoTarget ELSE raw

\* the gate of POST /voice: the target the handler goes on to build the
\* persona for, or the refusal it sends
voice(d, bearer, targetUserIdRaw) ==
    LET myId == IF bearer /= NoBearer THEN whoAmI(bearer) ELSE Anon
        given == trimTarget(targetUserIdRaw)
        \* past the gate: the locals the persona lookup and the prompt use
        Persona(target) ==
            [kind |-> "persona", status |-> 200, myId |-> myId, target |-> target]
    IN
    IF bearer /= NoBearer
    THEN LET targetUserId ==
                 IF given /= NoTarget THEN given
                 ELSE IF myId /= Anon THEN myId ELSE NoTarget
         IN
         IF targetUserId = NoTarget THEN Error("voice", 401, "Sign in required")
         ELSE IF myId /= targetUserId
         THEN LET acl == canActAs(d, myId, targetUserId) IN
              IF acl.status = 403 THEN Error("voice", 403, "Access denied")
              ELSE IF acl.status /= 200 THEN Error("voice", 502, "ACL check failed")
              ELSE IF ~acl.allowed THEN Error("voice", 403, "Access denied")
              ELSE Persona(targetUserId)
         ELSE Persona(targetUserId)
    ELSE LET targetUserId ==
                 IF given /= NoTarget THEN given ELSE PUBLIC_DEFAULT_TARGET_USER_ID
         IN
         IF targetUserId = NoTarget
         THEN Error("voice", 401, "auth_required_or_public_target_not_configured")
         ELSE IF /\ PUBLIC_DEFAULT_TARGET_USER_ID /= NoTarget
                 /\ targetUserId /= PUBLIC_DEFAULT_TARGET_USER_ID
         THEN Error("voice", 403, "forbidden_public_target")
         ELSE Persona(targetUserId)

\* what a client sends as bearer and as targetUserId
Bearers == {NoBearer, "bad"} \cup Users
Targets == {NoTarget, " "} \cup Users

Voice(bearer, targetUserIdRaw) ==
    /\ out' = voice(DB, bearer, targetUserIdRaw)
    /\ UNCHANGED <<PUBLIC_DEFAULT_TARGET_USER_ID, invites, granted, grants, nextCode, req>>

\* the ai-engine started with or without a public default target
InitVoice ==
    /\ PUBLIC_DEFAULT_TARGET_USER_ID \in {NoTarget, "u3"}
    /\ invites = [u \in Users |-> {}]
    /\ granted = [u \in Users |-> <<>>]
    /\ grants = <<>>
    /\ nextCode = 1
    /\ req = [s \in Slots |-> Idle]
    /\ out = NoResp

NextVoice ==
    \/ \E bearer \in Bearers, target \in Targets : Voice(bearer, target)
    \/ \E p \in ConcPairs : Invite(p[1], p[2])
    \/ \E code \in IssuedCodes : Accept(ConcGuest, code, 0)
    \/ RevokeByGuest(ConcOwner, ConcGuest)

SpecVoice == InitVoice /\ [][NextVoice]_vars

----------------------------------------------------------------------------
(* The GRANT-<ownerId>-<guestId> code as a string *)

\* In the handlers above a code is kept as the parts between its hyphens.
\* Here it is the string itself, a sequence of characters, and an ObjectId is
\* a sequence of IdBytes bytes.

HexDigits == <<"0", "1", "2", "3", "4", "5", "6", "7",
               "8", "9", "a", "b", "c", "d", "e", "f">>
ByteVals == {0, 10, 255}
ObjectIds == [1..IdBytes -> ByteVals]

\* ObjectId.prototype.toString(): two lower-case hex digits per byte
RECURSIVE toString(_)
toString(id) ==
    IF id = <<>> THEN <<>>
    ELSE <<HexDigits[(Head(id) \div 16) + 1], HexDigits[(Head(id) % 16) + 1]>>
             \o toString(Tail(id))

\* the value of a hex digit of either case, -1 for any other character
hexVal(c) ==
    LET lower == {i \in 1..16 : HexDigits[i] = c}
        upper == {i \in 11..16 : <<"A", "B", "C", "D", "E", "F">>[i - 10] = c}
    IN IF lower /= {} THEN (CHOOSE i \in lower : TRUE) - 1
       ELSE IF upper /= {} THEN (CHOOSE i \in upper : TRUE) - 1
       ELSE -1

\* objId(id) on a string: the ObjectId of a hex string of the full length,
\* null (here <<>>) when `new ObjectId` throws
ObjectIdOf(s) ==
    IF Len(s) = 2 * IdBytes /\ \A i \in 1..Len(s) : hexVal(s[i]) >= 0
    THEN [i \in 1..IdBytes |-> 16 * hexVal(s[2 * i - 1]) + hexVal(s[2 * i])]
    ELSE <<>>

\* String.prototype.split('-')
RECURSIVE split(_)
split(s) ==
    LET hyphens == {i \in 1..Len(s) : s[i] = "-"} IN
    IF hyphens = {} THEN <<s>>
    ELSE LET i == CHOOSE k \in hyphens : \A j \in hyphens : k <= j IN
         <<SubSeq(s, 1, i - 1)>> \o split(SubSeq(s, i + 1, Len(s)))

\* the code built with the guest's id before the owner's
syntheticStringGuestFirst(ownerId, meId) ==
    <<"G", "R", "A", "N", "T", "-">> \o toString(meId) \o <<"-">> \o toString(ownerId)

\* `GRANT-${owner._id.toString()}-${me._id.toString()}`
syntheticString(ownerId, meId) ==
    <<"G", "R", "A", "N", "T", "-">> \o toString(ownerId) \o <<"-">> \o toString(meId)

\* accept's decoding: startsWith('GRANT-'), three parts, both ObjectIds
decode(inviteCode) ==
    LET parts == split(inviteCode) IN
    IF /\ Len(inviteCode) >= 6
       /\ SubSeq(inviteCode, 1, 6) = <<"G", "R", "A", "N", "T", "-">>
       /\ Len(parts) = 3
       /\ ObjectIdOf(parts[2]) /= <<>>
       /\ ObjectIdOf(parts[3]) /= <<>>
    THEN [kind |-> "decoded", ownerId |-> ObjectIdOf(parts[2]),
          guestId |-> ObjectIdOf(parts[3]), code |-> inviteCode]
    ELSE [kind |-> "undecoded", code |-> inviteCode]

\* /lobby/requests builds the code for a pending document of (ownerId, me)
Synthesize(ownerId, meId) ==
    /\ out' = [kind |-> "code", code |-> syntheticString(ownerId, meId)]
    /\ UNCHANGED <<PUBLIC_DEFAULT_TARGET_USER_ID, invites, granted, grants, nextCode, req>>

\* /lobby/accept decodes the code it is sent: the one listed, or the listed
\* one cut short by a character
Decode(cut) ==
    /\ out.kind = "code"
    /\ out' = decode(SubSeq(out.code, 1, Len(out.code) - cut))
    /\ UNCHANGED <<PUBLIC_DEFAULT_TARGET_USER_ID, invites, granted, grants, nextCode, req>>

NextCodec ==
    \/ \E ownerId \in ObjectIds, meId \in ObjectIds : Synthesize(ownerId, meId)
    \/ \E cut \in {0, 1} : Decode(cut)

SpecCodec == Init /\ [][NextCodec]_vars

----------------------------------------------------------------------------
(* Properties of the ACL oracle *)

\* C1: for distinct accounts guest and owner, in every reachable state
\* GET /acl/can-act-as by guest with target owner answers 200 allowed 'grant'
\* exactly when the grants collection holds an (owner, guest) document with
\* status active, and 403 denied 'no-grant' in every other case.
C1_AclIffActiveRelationship ==
    \A guest \in Users, owner \in Users :
        guest /= owner =>
            canActAs(DB, guest, owner) =
                IF \E i \in 1..Len(grants) : /\ grants[i].ownerId = owner
                                             /\ grants[i].guestId = guest
                                             /\ grants[i].status = "active"
                THEN [kind |-> "acl", status |-> 200, allowed |-> TRUE, reason |-> "grant"]
                ELSE [kind |-> "acl", status |-> 403, allowed |-> FALSE, reason |-> "no-grant"]

\* the oracle has just answered 'grant' while another relationship is revoked
C1_Witness ==
    /\ out = [kind |-> "acl", status |-> 200, allowed |-> TRUE, reason |-> "grant"]
    /\ \E i \in 1..Len(grants) : grants[i].status = "active"
    /\ \E i \in 1..Len(grants) : grants[i].status = "revoked"

\* C2: for every account x, can-act-as by x with target x answers 200 allowed
\* 'self' in every reachable state, whatever documents the collection holds.
C2_SelfAlwaysAllowed ==
    \A x \in Users :
        canActAs(DB, x, x) =
            [kind |-> "acl", status |-> 200, allowed |-> TRUE, reason |-> "self"]

\* the oracle has just answered 'self' while an account has a revoked
\* relationship to itself on record
C2_Witness ==
    /\ out = [kind |-> "acl", status |-> 200, allowed |-> TRUE, reason |-> "self"]
    /\ \E i \in 1..Len(grants) : /\ grants[i].ownerId = grants[i].guestId
                                 /\ grants[i].status = "revoked"

\* C3: in every reachable state, once owner O's /lobby/revoke with a grantId
\* of guest G's accept, or O's /lobby/revoke-by-guest with G's id, has run to
\* its response, can-act-as by G with target O answers 403 'no-grant'.
C3_RevokeEffectiveOnNextCall ==
    \A O \in Users, G \in Users :
        G /= O =>
            LET denied == [kind |-> "acl", status |-> 403, allowed |-> FALSE,
                           reason |-> "no-grant"]
            IN /\ \A t \in 0..MaxTime :
                      canActAs(RunToEnd(RevokeReq(O, NoCode, mkGrantId(O, G, t)), DB, 0).db,
                               G, O) = denied
               /\ canActAs(RunToEnd(RevokeByGuestReq(O, G), DB, 0).db, G, O) = denied

\* a revoke has just removed a ledger entry, and the guest of a revoked
\* relationship, no longer in the owner's ledger, is denied
C3_Witness ==
    /\ out = [kind |-> "updated", status |-> 200, updated |-> 1]
    /\ \E i \in 1..Len(grants) :
          /\ grants[i].status = "revoked"
          /\ grants[i].ownerId /= grants[i].guestId
          /\ \A k \in 1..Len(granted[grants[i].ownerId]) :
                 granted[grants[i].ownerId][k].guest /= grants[i].guestId
          /\ canActAs(DB, grants[i].guestId, grants[i].ownerId).reason = "no-grant"

----------------------------------------------------------------------------
(* Properties of concurrent requests (SpecConc) *)

\* C4: in every reachable state, under any interleaving of invite, accept,
\* reject and revoke requests, the grants collection holds at most one
\* document per (ownerId, guestId) pair.
C4_OneRecordPerPair ==
    \A i \in 1..Len(grants), j \in 1..Len(grants) :
        (grants[i].ownerId = grants[j].ownerId /\ grants[i].guestId = grants[j].guestId)
            => i = j

\* C5: when two /lobby/accept requests of the same caller with the same code
\* have both found the invite pending and are both about to send their 200
\* response, the grantId each is about to return is the same.
C5_ConcurrentAcceptSameGrantId ==
    \A s \in Slots, s2 \in Slots :
        ( /\ s /= s2
          /\ At(s, "accept", "upsert") /\ At(s2, "accept", "upsert")
          /\ req[s].caller = req[s2].caller
          /\ req[s].code = req[s2].code )
            => req[s].grantId = req[s2].grantId

----------------------------------------------------------------------------
(* Properties of accept, reject and revoke, one request at a time *)

\* C6: in every reachable state, when /lobby/accept by a guest with a code
\* succeeds, the same call repeated right after succeeds with the same
\* grantId and leaves the database as the first call left it.
C6_AcceptTwiceSameGrantId ==
    \A me \in Users, code \in IssuedCodes, t1 \in 0..MaxTime, t2 \in 0..MaxTime :
        LET first == RunToEnd(AcceptReq(me, code), DB, t1) IN
        first.out.kind = "accept" =>
            LET second == RunToEnd(AcceptReq(me, code), first.db, t2) IN
            second.out = first.out /\ second.db = first.db

\* C7: in every reachable state, /lobby/accept by an account whose email is
\* not the one the pending invite with that code is addressed to does not
\* make that account an active guest of the invite's owner.
C7_OnlyInvitedGuestAccepts ==
    \A me \in Users, code \in IssuedCodes, t \in 0..MaxTime :
        LET o == InviteOwner(DB, code) IN
        (o /= Anon /\ InviteEmail(DB, o, code) /= UserEmail[me]) =>
            LET y == RunToEnd(AcceptReq(me, code), DB, t) IN
            ActiveGrant(y.db, o, me) => ActiveGrant(DB, o, me)

\* C8: in every reachable state, /lobby/reject by an account whose email is
\* not the one the pending invite with that code is addressed to leaves the
\* invite in the owner's ledger and the grants collection as it was.
C8_OnlyInvitedGuestRejects ==
    \A me \in Users, code \in IssuedCodes :
        LET o == InviteOwner(DB, code) IN
        (o /= Anon /\ InviteEmail(DB, o, code) /= UserEmail[me]) =>
            LET y == RunToEnd(RejectReq(me, code), DB, 0) IN
            HasInvite(y.db, o, code) /\ y.db.grants = grants

\* C9: in every reachable state, /lobby/accept with a code
\* GRANT-<ownerId>-<guestId> whose guestId is not the caller's id answers 404
\* invite_not_found and changes neither the grants collection nor a ledger.
C9_FallbackRejectsOtherCaller ==
    \A me \in Users, o \in Users, g \in Users, t \in 0..MaxTime :
        g /= me =>
            LET y == RunToEnd(AcceptReq(me, synthetic(o, g)), DB, t) IN
            y.out = Error("accept", 404, "invite_not_found") /\ y.db = DB

\* accept has just answered invite_not_found to a code that is no issued
\* invite code (each of those is still pending in a ledger), while the
\* collection holds a pending relationship
C9_Witness ==
    /\ out = Error("accept", 404, "invite_not_found")
    /\ \E i \in 1..Len(grants) : grants[i].status = "pending"
    /\ \A code \in IssuedCodes : InviteOwner(DB, code) /= Anon

\* C10: in every reachable state, /lobby/revoke by the owner with the grantId
\* of one ledger entry leaves every document of the owner's other guests
\* (accounts other than that entry's guest and the owner) as it was, so
\* can-act-as of those guests answers as before the call.
C10_RevokeGrantIdOnlyThatRelationship ==
    \A gid \in KnownGrantIds :
        LET y == RunToEnd(RevokeReq(gid[2], NoCode, gid), DB, 0) IN
        /\ \A i \in 1..Len(grants) :
               grants[i].guestId \notin {gid[2], gid[3]} => y.db.grants[i] = grants[i]
        /\ \A other \in Users :
               other \notin {gid[2], gid[3]} =>
                   canActAs(y.db, other, gid[2]) = canActAs(DB, other, gid[2])

----------------------------------------------------------------------------
(* Properties of revocation *)

C12_RevokeScopedToCaller ==
    \A X \in Users :
        \A r \in {RevokeReq(X, code, NoGrantId) : code \in IssuedCodes}
                \cup {RevokeReq(X, NoCode, gid) : gid \in KnownGrantIds}
                \cup {RevokeByGuestReq(X, g) : g \in Users} :
            LET y == RunToEnd(r, DB, 0) IN
            /\ Len(y.db.grants) = Len(grants)
            /\ \A i \in 1..Len(grants) :
                   grants[i].ownerId /= X => y.db.grants[i] = grants[i]
            /\ \A o \in Users :
                   o /= X => y.db.invites[o] = invites[o] /\ y.db.granted[o] = granted[o]

\* a revoke by grantId or by guest has just answered 200 having removed
\* nothing, while an owner has a pending invite, a granted entry and an
\* active relationship, and nothing on record is revoked
C12_Witness ==
    /\ out = [kind |-> "updated", status |-> 200, updated |-> 0]
    /\ \E o \in Users : invites[o] /= {} /\ granted[o] /= <<>>
    /\ \E i \in 1..Len(grants) : grants[i].status = "active"
    /\ \A i \in 1..Len(grants) : grants[i].status /= "revoked"

\* C13: when the guest's /lobby/accept and the owner's /lobby/revoke of the
\* same invite code are both at their last call (the write to the grants
\* collection) and the pair has one document, then in either order of the
\* two writes the pair still has one document, and its status is active when
\* the accept's write lands last and revoked when the revoke's write lands
\* last.
C13_RevokeAcceptRaceLastWriteWins ==
    \A s \in Slots, s2 \in Slots :
        LET o == req[s].owner
            g == req[s].caller
            Recs(d) == {i \in 1..Len(d.grants) :
                           d.grants[i].ownerId = o /\ d.grants[i].guestId = g}
        IN ( /\ At(s, "accept", "upsert") /\ At(s2, "revoke", "update")
             /\ req[s2].code = req[s].code
             /\ req[s2].caller = o
             /\ Cardinality(Recs(DB)) = 1 )
           =>
           LET acceptLast == StepOf(req[s], StepOf(req[s2], DB, 0).db, 0).db
               revokeLast == StepOf(req[s2], StepOf(req[s], DB, 0).db, 0).db
           IN /\ Cardinality(Recs(acceptLast)) = 1
              /\ \A i \in Recs(acceptLast) : acceptLast.grants[i].status = "active"
              /\ Cardinality(Recs(revokeLast)) = 1
              /\ \A i \in Recs(revokeLast) : revokeLast.grants[i].status = "revoked"

----------------------------------------------------------------------------
(* Properties of /lobby/summary and of the ledger *)

\* C14: in every reachable state, the granted list of /lobby/summary of every
\* account holds no two entries with the same invite code and no two entries
\* without a code for the same guest email.
C14_SummaryGrantedNoDuplicate ==
    \A me \in Users :
        LET g == summary(DB, me).granted IN
        \A i \in 1..Len(g), j \in 1..Len(g) :
            ( /\ g[i].inviteCode = g[j].inviteCode
              /\ (g[i].inviteCode = NoCode => g[i].email = g[j].email) )
                => i = j

\* C15: in every reachable state, the received list of /lobby/summary of
\* account G holds an entry for owner O exactly when the grants collection
\* holds an active (O, G) document, that is when can-act-as by G with target
\* O is allowed.
C15_SummaryReceivedIffActive ==
    \A G \in Users, O \in Users :
        G /= O =>
            LET received == summary(DB, G).received IN
            (\E n \in 1..Len(received) : received[n].owner = O)
                <=> canActAs(DB, G, O).allowed

\* C16: in every reachable state, also with two invites of the same owner for
\* the same email in flight, no ledger holds two pending invites for one
\* email.
C16_OnePendingInvitePerEmail ==
    \A o \in Users :
        \A i \in invites[o], j \in invites[o] :
            (i.status = "pending" /\ j.status = "pending" /\ i.email = j.email)
                => i = j

----------------------------------------------------------------------------
(* Properties of the grants collection *)

\* C17: in every reachable state, a document of the grants collection that
\* carries an invite code has status pending; in particular an active
\* document carries none.
C17_InviteCodeOnlyWhilePending ==
    \A i \in 1..Len(grants) :
        grants[i].inviteCode /= NoCode => grants[i].status = "pending"

----------------------------------------------------------------------------
(* Properties of reject and invite *)

\* C18: in every reachable state, when the guest a pending invite is addressed
\* to rejects it with /lobby/reject, the same call repeated right after
\* answers 200 as well and leaves the database as the first call left it.
C18_RejectTwiceSucceeds ==
    \A me \in Users, code \in IssuedCodes :
        LET o == InviteOwner(DB, code) IN
        (o /= Anon /\ InviteEmail(DB, o, code) = UserEmail[me]) =>
            LET first == RunToEnd(RejectReq(me, code), DB, 0)
                second == RunToEnd(RejectReq(me, code), first.db, 0)
            IN /\ first.out = [kind |-> "reject", status |-> 200]
               /\ second.out = [kind |-> "reject", status |-> 200]
               /\ second.db = first.db

----------------------------------------------------------------------------
(* POST /lobby/invite and the grants collection *)

\* C20: in every reachable state, an /lobby/invite that has just answered
\* leaves a pending invite with the returned code in a ledger and, when its
\* email is that of an account G, a document (owner, G) with status pending
\* and that code in the grants collection; and an invite for an email of no
\* account leaves the grants collection and the granted lists as they were
\* and adds the invite to the owner's ledger.
C20_InviteMirrorsPendingRelationship ==
    /\ out.kind = "invite" =>
           \E o \in Users : \E i \in invites[o] :
               /\ i.status = "pending"
               /\ i.inviteCode = out.inviteCode
               /\ UserByEmail(i.email) /= Anon =>
                      \E n \in 1..Len(grants) :
                          grants[n] = [ownerId |-> o, guestId |-> UserByEmail(i.email),
                                       status |-> "pending",
                                       inviteCode |-> out.inviteCode]
    /\ nextCode <= MaxCodes =>
           \A p \in InvitePairs :
               LET r == InviteReq(p[1], p[2], nextCode)
                   y == RunToEnd(r, DB, 0)
                   G == UserByEmail(r.email)
                   inv == [email |-> r.email, inviteCode |-> r.code, status |-> "pending"]
               IN
               /\ y.out = [kind |-> "invite", status |-> 200, inviteCode |-> r.code]
               /\ inv \in y.db.invites[p[1]]
               /\ G /= Anon =>
                      \E n \in 1..Len(y.db.grants) :
                          y.db.grants[n] = [ownerId |-> p[1], guestId |-> G,
                                            status |-> "pending", inviteCode |-> r.code]
               /\ G = Anon =>
                      /\ y.db.grants = grants
                      /\ y.db.granted = granted
                      /\ y.db.invites =
                             [invites EXCEPT ![p[1]] =
                                 {i \in @ : ~(i.email = r.email /\ i.status = "pending")}
                                     \cup {inv}]

----------------------------------------------------------------------------
(* POST /lobby/accept: effect, resolution paths, retry *)

\* C21: in every reachable state, an /lobby/accept by account G with a code
\* a pending invite of owner O carries answers 200 with a grantId, leaves no
\* invite with that code in O's ledger, leaves the first document of (O, G)
\* active with no invite code, leaves in O's ledger an active entry with that
\* grantId carrying G's id, email, name and picture, and the can-act-as of
\* (G, O) on the resulting database answers allowed, with reason 'grant'
\* when G is not O.
C21_AcceptActivates ==
    \A G \in Users, code \in IssuedCodes, t \in 0..MaxTime :
        LET O == InviteOwner(DB, code) IN
        O /= Anon =>
            LET y == RunToEnd(AcceptReq(G, code), DB, t)
                acl == canActAs(y.db, G, O)
                docs == {i \in 1..Len(y.db.grants) :
                            /\ y.db.grants[i].ownerId = O
                            /\ y.db.grants[i].guestId = G}
            IN
            /\ y.out = [kind |-> "accept", status |-> 200,
                        grantId |-> mkGrantId(O, G, t)]
            /\ \A i \in y.db.invites[O] : i.inviteCode /= code
            /\ docs /= {}
            /\ \A i \in docs :
                   y.db.grants[i].status = "active" /\ y.db.grants[i].inviteCode = NoCode
            /\ \E k \in 1..Len(y.db.granted[O]) :
                   y.db.granted[O][k] =
                       [id |-> y.out.grantId, status |-> "active", guest |-> G,
                        email |-> UserEmail[G], name |-> UserName[G],
                        picture |-> UserPicture[G]]
            /\ acl.allowed
            /\ G /= O => acl.reason = "grant"

\* an accept has just answered 200 with a grantId; the pair of that grantId
\* has an active document without a code and its invite is gone
C21_Witness ==
    /\ out.kind = "accept"
    /\ out.grantId[2] /= out.grantId[3]
    /\ \E i \in 1..Len(grants) :
          /\ grants[i] = [ownerId |-> out.grantId[2], guestId |-> out.grantId[3],
                          status |-> "active", inviteCode |-> NoCode]
    /\ invites[out.grantId[2]] = {}
    /\ canActAs(DB, out.grantId[3], out.grantId[2]).reason = "grant"

\* C22: in every reachable state where owner O's ledger holds a pending invite
\* with code c and the grants collection holds a pending document of (O, G),
\* the accept of G with c and the accept of G with GRANT-<O>-<G> both answer
\* 200 with the same grantId and leave the same grants collection and the
\* same lobby.granted arrays.
C22_AcceptPathsConverge ==
    \A G \in Users, code \in IssuedCodes, t \in 0..MaxTime :
        LET O == InviteOwner(DB, code) IN
        ( /\ O /= Anon
          /\ \E i \in 1..Len(grants) :
                 /\ grants[i].ownerId = O /\ grants[i].guestId = G
                 /\ grants[i].status = "pending" ) =>
            LET ledger == RunToEnd(AcceptReq(G, code), DB, t)
                store == RunToEnd(AcceptReq(G, synthetic(O, G)), DB, t)
            IN
            /\ ledger.out.kind = "accept"
            /\ store.out = ledger.out
            /\ store.db.grants = ledger.db.grants
            /\ store.db.granted = ledger.db.granted

\* an accept by a GRANT- code has just answered 200: the one invite issued
\* is still pending in the owner's ledger while the document of the pair is
\* active without a code
C22_Witness ==
    /\ out.kind = "accept"
    /\ nextCode = 2
    /\ \E i \in invites[out.grantId[2]] :
          i.status = "pending" /\ i.email = UserEmail[out.grantId[3]]
    /\ \E i \in 1..Len(grants) :
          grants[i] = [ownerId |-> out.grantId[2], guestId |-> out.grantId[3],
                       status |-> "active", inviteCode |-> NoCode]

\* C23: in every reachable state with no request in flight, also after failed
\* requests, when an accept
\* of a pending invite's code is cut off by a throwing call after its first n
\* calls (n = 0..3) and the same accept is then sent again, the second
\* answers what an uninterrupted accept answers and leaves the database an
\* uninterrupted accept leaves.
C23_AcceptRetryAfterFailure ==
    \A G \in Users, code \in IssuedCodes, n \in 0..3, t \in 0..MaxTime :
        ((\A s \in Slots : req[s].pc = "done") /\ InviteOwner(DB, code) /= Anon) =>
            LET part == RunSteps(AcceptReq(G, code), DB, t, n)
                retry == RunToEnd(AcceptReq(G, code), part.db, t)
                whole == RunToEnd(AcceptReq(G, code), DB, t)
            IN
            /\ retry.out = whole.out
            /\ retry.db = whole.db

----------------------------------------------------------------------------
(* GET /lobby/requests and the two representations *)

\* C24: in every reachable state with no request in flight, every pending
\* document of the grants collection that carries a code has a pending invite
\* with that code in its owner's ledger, and every request /lobby/requests
\* lists for an account is accepted with 200 when that account presents its
\* code.
C24_LedgerProjectsStore ==
    (\A s \in Slots : req[s].pc = "done") =>
        /\ \A i \in 1..Len(grants) :
               (grants[i].status = "pending" /\ grants[i].inviteCode /= NoCode) =>
                   HasInvite(DB, grants[i].ownerId, grants[i].inviteCode)
        /\ \A G \in Users :
               LET listed == requests(DB, G).requests IN
               \A n \in 1..Len(listed) :
                   RunToEnd(AcceptReq(G, listed[n].inviteCode), DB, 0).out.kind
                       = "accept"

\* C25: in every reachable state, after an invite of owner O for the address
\* of an account G has run, /lobby/requests of G lists exactly one request of
\* owner O, and it carries the code returned to O and O's id, name, email and
\* picture.
C25_RequestsListsInviteOnce ==
    nextCode <= MaxCodes =>
        \A p \in InvitePairs :
            LET r == InviteReq(p[1], p[2], nextCode)
                G == UserByEmail(r.email)
            IN
            G /= Anon =>
                LET y == RunToEnd(r, DB, 0)
                    listed == requests(y.db, G).requests
                    Mine(e) == e.owner.id = p[1]
                IN
                /\ y.out.inviteCode = r.code
                /\ SelectSeq(listed, Mine) =
                       << [inviteCode |-> r.code,
                           owner |-> [id |-> p[1], name |-> UserName[p[1]],
                                      email |-> UserEmail[p[1]],
                                      picture |-> UserPicture[p[1]]]] >>

\* /lobby/requests has just answered with one request, whose code is pending
\* in its owner's ledger and on a pending document of the grants collection
C25_Witness ==
    /\ out.kind = "requests"
    /\ Len(out.requests) = 1
    /\ HasInvite(DB, out.requests[1].owner.id, out.requests[1].inviteCode)
    /\ \E i \in 1..Len(grants) :
          /\ grants[i].ownerId = out.requests[1].owner.id
          /\ grants[i].status = "pending"
          /\ grants[i].inviteCode = out.requests[1].inviteCode

----------------------------------------------------------------------------
(* Error responses *)

\* C26: in every reachable state, invite, accept, reject, revoke and
\* revoke-by-guest called without a verified caller answer 401 and leave the
\* ledgers and the grants collection as they are, and summary, requests and
\* can-act-as called without a verified caller answer 401.
C26_NoIdentity401 ==
    /\ \A r \in AnonRequests, t \in 0..MaxTime :
           LET y == Entry(r, DB, t) IN
           /\ y.out.status = 401
           /\ y.db = DB
    /\ summary(DB, Anon).status = 401
    /\ requests(DB, Anon).status = 401
    /\ \A target \in Users : canActAs(DB, Anon, target).status = 401

\* a call without a verified caller has just been answered 401 while a
\* ledger holds a pending invite and an active entry and the grants
\* collection holds an active and a pending document
C26_Witness ==
    /\ out = Error("any", 401, "unauthorized")
    /\ \E o \in Users : invites[o] /= {} /\ granted[o] /= <<>>
    /\ \E i \in 1..Len(grants) : grants[i].status = "active"
    /\ \E i \in 1..Len(grants) : grants[i].status = "pending"

\* C27: in every reachable state, for every account and every code (issued,
\* never issued, or GRANT-<owner>-<guest> for any two accounts) that no
\* pending invite of any ledger carries and that neither is the code of, nor
\* names the pair of, a pending document with the account as guest,
\* /lobby/accept and /lobby/reject answer 404 invite_not_found and leave the
\* ledgers and the grants collection as they are.
C27_UnknownCode404 ==
    \A me \in Users :
        \A code \in IssuedCodes \cup {genInviteCode(MaxCodes + 1)}
                       \cup {synthetic(o, g) : o \in Users, g \in Users} :
            LET inLedger == \E o \in Users : HasInvite(DB, o, code)
                inStore == \E i \in 1..Len(grants) :
                               /\ grants[i].guestId = me
                               /\ grants[i].status = "pending"
                               /\ \/ grants[i].inviteCode = code
                                  \/ code = synthetic(grants[i].ownerId, me)
                a == Entry(AcceptReq(me, code), DB, 0)
                r == Entry(RejectReq(me, code), DB, 0)
            IN
            (~inLedger /\ ~inStore) =>
                /\ a.out = Error("accept", 404, "invite_not_found")
                /\ a.db = DB
                /\ r.out = Error("reject", 404, "invite_not_found")
                /\ r.db = DB

\* an accept has just been answered 404 invite_not_found while a ledger holds
\* a pending invite and the grants collection a pending document
C27_Witness ==
    /\ out = Error("accept", 404, "invite_not_found")
    /\ \E o \in Users : invites[o] /= {}
    /\ \E i \in 1..Len(grants) : grants[i].status = "pending"

----------------------------------------------------------------------------
(* ai-engine: the ACL gate of POST /voice *)

\* C28: in every reachable state and for either setting of the public default
\* target, when POST /voice has gone on to the persona of a target, either
\* the caller is signed in and the target is the caller, or the caller is
\* signed in and can-act-as answers allowed for (caller, target), or the
\* caller is not signed in and the target is the configured public default.
C28_VoiceGatedByAcl ==
    out.kind = "persona" =>
        \/ out.myId /= Anon /\ out.target = out.myId
        \/ out.myId /= Anon /\ canActAs(DB, out.myId, out.target).allowed
        \/ /\ out.myId = Anon
           /\ PUBLIC_DEFAULT_TARGET_USER_ID /= NoTarget
           /\ out.target = PUBLIC_DEFAULT_TARGET_USER_ID

----------------------------------------------------------------------------
(* The fallback code *)

\* C29: for every two ObjectIds (evaluated once, in the state before any
\* response), decoding the code GRANT-<ownerId>-<guestId> as /lobby/accept
\* does yields these two ids, and building the code from the decoded ids as
\* /lobby/requests does yields the same string; and in every reachable state
\* a code that has just been decoded is the code of the ids it decoded to.
C29_FallbackCodeRoundTrip ==
    /\ out = NoResp =>
         \A ownerId \in ObjectIds, guestId \in ObjectIds :
           LET code == syntheticString(ownerId, guestId)
               back == decode(code)
           IN
           /\ back.kind = "decoded"
           /\ back.ownerId = ownerId
           /\ back.guestId = guestId
           /\ syntheticString(back.ownerId, back.guestId) = code
    /\ out.kind = "decoded" =>
           syntheticString(out.ownerId, out.guestId) = out.code

\* a code of two different ids has just been decoded
C29_Witness ==
    /\ out.kind = "decoded"
    /\ out.ownerId /= out.guestId
    /\ out.ownerId \in ObjectIds
    /\ out.guestId \in ObjectIds

----------------------------------------------------------------------------
(* Re-invitation after revocation *)

----------------------------------------------------------------------------
(* What ends an active relationship, and what may start one again *)

\* C31: in every reachable state, a document with status active of a guest
\* other than the owner keeps that status through every /lobby/invite,
\* /lobby/accept and /lobby/reject call of every account (any address
\* invited, any issued code presented).
C31_ActiveEndsOnlyByOwnerRevocation ==
    \A i \in 1..Len(grants) :
        (grants[i].status = "active" /\ grants[i].guestId /= grants[i].ownerId) =>
            /\ \A caller \in Users, p \in InvitePairs :
                   RunToEnd(InviteReq(caller, p[2], nextCode), DB, 0)
                       .db.grants[i].status = "active"
            /\ \A caller \in Users, code \in IssuedCodes, t \in 0..MaxTime :
                   RunToEnd(AcceptReq(caller, code), DB, t)
                       .db.grants[i].status = "active"
            /\ \A caller \in Users, code \in IssuedCodes :
                   RunToEnd(RejectReq(caller, code), DB, 0)
                       .db.grants[i].status = "active"

\* C32: in every step in which a /lobby/revoke or /lobby/revoke-by-guest
\* call turns a document of (O, G), G other than O, that was pending or
\* active to revoked, no invite code issued so far, presented by G to
\* /lobby/accept on the resulting database, leaves an active document of
\* (O, G).
C32_NoOldCodeAfterRevocation ==
    [][ \A i \in 1..Len(grants) :
          ( /\ out'.kind \in {"updated", "revoke"}
            /\ grants[i].guestId /= grants[i].ownerId
            /\ grants[i].status /= "revoked"
            /\ grants'[i].status = "revoked" ) =>
              \A code \in IssuedCodes, t \in 0..MaxTime :
                  LET after == [invites |-> invites', granted |-> granted',
                                grants |-> grants']
                      y == RunToEnd(AcceptReq(grants[i].guestId, code), after, t)
                  IN ~ActiveGrant(y.db, grants[i].ownerId, grants[i].guestId) ]_vars

----------------------------------------------------------------------------
(* Codes replaced by a later invite *)

\* C33: in every reachable state with no request in flight, an issued code
\* that a later invite of the same owner for the same address has replaced
\* (a later-issued code is pending for that address in the ledger the code
\* is in, or the code is pending in no ledger) is answered 404
\* invite_not_found by /lobby/accept, whoever presents it, and the database
\* is left as it was.
C33_SupersededCodeDead ==
    (\A s \in Slots : req[s].pc = "done") =>
        \A k \in 1..(nextCode - 1) :
            LET code == genInviteCode(k)
                O == InviteOwner(DB, code)
                replaced ==
                    \/ O = Anon
                    \/ \E k2 \in (k + 1)..(nextCode - 1) :
                           \E j \in invites[O] :
                               /\ j.inviteCode = genInviteCode(k2)
                               /\ j.status = "pending"
                               /\ j.email = InviteEmail(DB, O, code)
            IN replaced =>
                   \A me \in Users, t \in 0..MaxTime :
                       LET y == RunToEnd(AcceptReq(me, code), DB, t) IN
                       /\ y.out = Error("accept", 404, "invite_not_found")
                       /\ y.db = DB

----------------------------------------------------------------------------
(* Pending documents and their codes *)

\* C34: in every reachable state every document with status pending carries
\* an invite code, and no request /lobby/requests lists for any account
\* carries a GRANT- code.
C34_PendingCarriesCode ==
    /\ \A i \in 1..Len(grants) :
           grants[i].status = "pending" => grants[i].inviteCode /= NoCode
    /\ \A me \in Users :
           LET listed == requests(DB, me).requests IN
           \A n \in 1..Len(listed) :
               /\ listed[n].inviteCode /= NoCode
               /\ listed[n].inviteCode[1] /= "GRANT"

\* a pair that was accepted once (its entry is in the owner's ledger) has
\* been invited again: its document is pending with the new code, and
\* /lobby/requests has just listed requests
C34_Witness ==
    /\ out.kind = "requests"
    /\ Len(out.requests) > 0
    /\ \E i \in 1..Len(grants) :
           /\ grants[i].status = "pending"
           /\ grants[i].inviteCode /= NoCode
           /\ \E k \in 1..Len(granted[grants[i].ownerId]) :
                  granted[grants[i].ownerId][k].guest = grants[i].guestId

----------------------------------------------------------------------------
(* What the oracle reads, and what the read endpoints write *)

\* C35: in every reachable state, for every caller and target, can-act-as
\* gives the answer it gives on the same grants collection with every
\* ledger empty, and with every ledger holding a pending invite for every
\* address and an active entry for every guest; so two databases with
\* equal collections get equal answers, whatever their ledgers hold.
C35_AclReadsOnlyStore ==
    LET noLedger == [invites |-> [o \in Users |-> {}],
                     granted |-> [o \in Users |-> <<>>],
                     grants |-> grants]
        fullLedger ==
            [invites |-> [o \in Users |->
                             {[email |-> UserEmail[g], inviteCode |-> genInviteCode(1),
                               status |-> "pending"] : g \in Users}],
             granted |-> [o \in Users |->
                             [k \in 1..Len(UserOrder) |->
                                 [id |-> mkGrantId(o, UserOrder[k], 0),
                                  status |-> "active", guest |-> UserOrder[k],
                                  email |-> UserEmail[UserOrder[k]],
                                  name |-> UserName[UserOrder[k]],
                                  picture |-> UserPicture[UserOrder[k]]]]],
             grants |-> grants]
    IN \A me \in Users \cup {Anon}, target \in Users :
           /\ canActAs(noLedger, me, target) = canActAs(DB, me, target)
           /\ canActAs(fullLedger, me, target) = canActAs(DB, me, target)

\* can-act-as has just denied a guest whose entry in the owner's ledger is
\* active: the ledger and the collection disagree about the pair
C35_Witness ==
    \E o \in Users : \E k \in 1..Len(granted[o]) :
        /\ granted[o][k].status = "active"
        /\ granted[o][k].guest /= o
        /\ out = canActAs(DB, granted[o][k].guest, o)
        /\ out.status = 403

\* C36: no step in which /acl/can-act-as, /lobby/summary or /lobby/requests
\* answers (200, 401 unauthorized, 403 no-grant or 404 not_found) changes
\* a ledger or the grants collection.
C36_ReadsWriteNothing ==
    [][ ( \/ out'.kind \in {"acl", "summary", "requests"}
          \/ out' = Error("any", 401, "unauthorized")
          \/ out' = Error("any", 404, "not_found") ) =>
            /\ invites' = invites
            /\ granted' = granted
            /\ grants' = grants ]_vars

\* /lobby/requests has just listed an invite, and the ledger of the owner
\* listed still holds it
C36_Witness ==
    /\ out.kind = "requests"
    /\ \E n \in 1..Len(out.requests) :
           HasInvite(DB, out.requests[n].owner.id, out.requests[n].inviteCode)

----------------------------------------------------------------------------
(* Relationships of an account with itself *)

\* C37: in every reachable state no document of the grants collection has
\* its ownerId equal to its guestId.
C37_NoSelfRelationship ==
    \A i \in 1..Len(grants) : grants[i].ownerId /= grants[i].guestId

====
